---- MODULE Spec2Model ----
(***************************************************************************)
(* Statement import, de-duplication, commit and undo of whisper-money.     *)
(*                                                                         *)
(* The model follows the import dialogs (ImportWechatDialog,               *)
(* ImportBocDialog) request by request: every `await supabase...` of a     *)
(* handler is one step, the synchronous code after it belongs to the same  *)
(* step.  The store (transactions, accounts, categories) is shared by the  *)
(* sessions of one owner; its unique index on (user_id, unique_hash) is    *)
(* the one of the soft-delete migration.                                   *)
(*                                                                         *)
(* Amounts are integers in cents, so sums are exact; an amount string is   *)
(* the sequence of the numbers its text is made of; strings are short      *)
(* ASCII stand-ins for the Chinese cell texts.                              *)
(***************************************************************************)
EXTENDS Integers, Sequences, FiniteSets, TLC

VARIABLES
    today,          \* wall-clock calendar day, read by format(new Date(), 'yyyy-MM-dd')
    transactions,   \* table public.transactions (set of rows)
    accounts,       \* table public.accounts (sequence, in select order)
    categories,     \* table public.categories (set of rows)
    nextId,         \* next id the store hands out (gen_random_uuid)
    pc,             \* per session: the request the handler is waiting on
    result,         \* per session: useState result (parsed file) or NoResult
    loc,            \* per session: the locals of the running onImport
    batches,        \* the undo closures of the success toasts, in commit order
    report,         \* per session: the last toast of the dialog
    hist,           \* per session: what each finished onImport run did (observation)
    input,          \* per session: the file input's file, the password, useState loading
    delToasts,      \* the undo closures of the 交易记录已删除 toasts, in order
    addDlg          \* per session: useState accounts of AddTransactionDialog, <<>> while closed

vars == <<today, transactions, accounts, categories, nextId, pc, result, loc,
          batches, report, hist, input, delToasts, addDlg>>

-----------------------------------------------------------------------------
(* Bounds of the model *)

MaxRecs == 2        \* records per statement file
MaxDay == 2         \* calendar days the clock runs through
MaxRuns == 2        \* onImport runs per session
MaxClicks == 2      \* clicks on one undo button
ChunkRows == 1      \* rows per insert request (the code's chunk of 500, scaled)
MaxFaults == 1      \* failing requests per undo handler

Procs == {1, 2}     \* import sessions (dialogs) of the owner
Owner == "u1"
Stranger == "u2"

-----------------------------------------------------------------------------
(* Cell values of a statement *)

\* 交易时间 cell: fmt "none" is the empty cell, "dash" is YYYY-MM-DD HH:mm:ss,
\* "slash" is YYYY/MM/DD HH:mm:ss, "minute" lacks the seconds, "date" lacks the time.
RawTime(fmt, day, sec) == [fmt |-> fmt, day |-> day, sec |-> sec]
NoTimeCell == RawTime("none", 0, 0)

\* 金额 cell: a number, or text that Number() turns into NaN.
Num(v) == [ok |-> TRUE, v |-> v]
NotANumber == [ok |-> FALSE, v |-> 0]

WechatRec(t, inout, amount, desc, oid) ==
    [time |-> t, inout |-> inout, amount |-> amount, desc |-> desc, oid |-> oid]

\* The rows a WeChat export can hold in this model.
WechatRecs ==
    { WechatRec(RawTime("dash", 1, 0), "in", Num(100), "salary", "o1"),
      WechatRec(RawTime("dash", 1, 1), "out", Num(50), "lunch", "o2"),
      WechatRec(RawTime("slash", 1, 1), "out", Num(50), "snack", "o3"),
      WechatRec(RawTime("dash", 1, 0), "/", Num(100), "transfer", "o4"),
      WechatRec(NoTimeCell, "out", Num(50), "lunch", "o2"),
      WechatRec(RawTime("date", 1, 1), "out", Num(0), "free", "o5") }

SeqsUpTo(S, n) == UNION { [1..k -> S] : k \in 1..n }

WechatFiles == { [provider |-> "wechat", records |-> rs] : rs \in SeqsUpTo(WechatRecs, MaxRecs) }

NoResult == [provider |-> "none", records |-> <<>>]

-----------------------------------------------------------------------------
(* Fingerprints.  A fingerprint string is modelled by its generation and   *)
(* the values the template string is built from.                           *)

Fp(gen, day, sec, amt, desc, oid, bal) ==
    [gen |-> gen, day |-> day, sec |-> sec, amt |-> amt, desc |-> desc, oid |-> oid, bal |-> bal]
NullHash == Fp("null", 0, 0, <<>>, "", "", <<>>)

\* variant of mapWechatTypeToTransaction: whatever is not income is an expense
mapWechatTypeTwoWay(inout) == IF inout = "in" THEN "income" ELSE "expense"

\* lib/wechat.ts
mapWechatTypeToTransaction(inout) ==
    IF inout = "in" THEN "income"
    ELSE IF inout = "out" THEN "expense"
    ELSE "transfer"

wechatAmountToNumber(amount) == IF amount.ok THEN amount.v ELSE 0

\* '' for the empty cell, else 'YYYY-MM-DD HH:mm:ss'; day 0 stands for ''.
normalizeDateTime(s) ==
    IF s.fmt = "none" THEN [day |-> 0, sec |-> 0]
    ELSE IF s.fmt = "date" THEN [day |-> s.day, sec |-> 0]
    ELSE [day |-> s.day, sec |-> s.sec]

\* occurredAt ? occurredAt.slice(0, 10) : format(new Date(), 'yyyy-MM-dd')
dateStrOf(occurredAt, now) == IF occurredAt.day # 0 THEN occurredAt.day ELSE now

\* toTsKey(occurredAt || `${dateStr} 00:00:00`): the digits YYYYMMDDHHmmss
toTsKey(occurredAt, now) ==
    IF occurredAt.day # 0 THEN occurredAt ELSE [day |-> now, sec |-> 0]

Abs(n) == IF n < 0 THEN 0 - n ELSE n

\* sign, abs.toFixed(2), then '.00' cut off, else one trailing '0' cut off:
\* << sign, whole part, the decimals kept >>
formatAmountLoose(n) ==
    LET sign == IF n < 0 THEN 1 ELSE 0
        whole == Abs(n) \div 100
        c == Abs(n) % 100
    IN IF c = 0 THEN << sign, whole >>
       ELSE IF c % 10 = 0 THEN << sign, whole, c \div 10 >>
       ELSE << sign, whole, c \div 10, c % 10 >>

pickCategoryName(type) == IF type = "income" THEN "salary" ELSE "other"

wechatSigned(rec) ==
    LET type == mapWechatTypeToTransaction(rec.inout)
        amount == wechatAmountToNumber(rec.amount)
    IN IF type = "income" THEN amount ELSE 0 - amount

wechatFingerprint(rec, now) ==
    LET tsKey == toTsKey(normalizeDateTime(rec.time), now)
    IN Fp("cur", tsKey.day, tsKey.sec, formatAmountLoose(wechatSigned(rec)), "", "", <<>>)

wechatLegacyFp(rec, now) ==
    Fp("legacy", dateStrOf(normalizeDateTime(rec.time), now), 0, << wechatSigned(rec) >>,
       rec.desc, rec.oid, <<>>)

-----------------------------------------------------------------------------
(* Bank of China statement rows (lib/boc.ts, ImportBocDialog) *)

\* 余额 cell: has = the trimmed cell is not empty
BalCell(has, v) == [has |-> has, v |-> v]

BocRec(day, debit, credit, amt, desc, bal) ==
    [day |-> day, debit |-> debit, credit |-> credit, amt |-> amt, desc |-> desc, bal |-> bal]

BocRecs ==
    { BocRec(1, Num(0), Num(100), Num(0), "salary", BalCell(TRUE, 1100)),
      BocRec(1, Num(50), Num(0), Num(0), "lunch", BalCell(TRUE, 1050)),
      BocRec(1, Num(50), Num(0), Num(0), "lunch", BalCell(FALSE, 0)),
      BocRec(1, NotANumber, NotANumber, Num(0 - 50), "lunch", BalCell(TRUE, 1050)),
      BocRec(1, NotANumber, NotANumber, NotANumber, "total", BalCell(TRUE, 1050)) }

BocFiles == { [provider |-> "boc", records |-> rs] : rs \in SeqsUpTo(BocRecs, MaxRecs) }

bocAmountToNumber(s) == IF s.ok THEN s.v ELSE 0

\* ImportBocDialog: "Determine amount and type"
bocAmt(rec) ==
    LET debit == bocAmountToNumber(rec.debit)
        credit == bocAmountToNumber(rec.credit)
    IN IF credit > 0 THEN credit
       ELSE IF debit > 0 THEN debit
       ELSE Abs(bocAmountToNumber(rec.amt))

bocType(rec) ==
    LET debit == bocAmountToNumber(rec.debit)
        credit == bocAmountToNumber(rec.credit)
    IN IF credit > 0 THEN "income"
       ELSE IF debit > 0 THEN "expense"
       ELSE IF bocAmountToNumber(rec.amt) >= 0 THEN "income" ELSE "expense"

bocSigned(rec) == IF bocType(rec) = "income" THEN bocAmt(rec) ELSE 0 - bocAmt(rec)

\* sign + Math.abs(n).toFixed(2): << sign, whole part, first decimal, second decimal >>
moneyToFixed2(n) ==
    << IF n < 0 THEN 1 ELSE 0, Abs(n) \div 100, (Abs(n) % 100) \div 10, Abs(n) % 10 >>

\* `${dateStr}|${Math.round(Math.abs(amt)*100)}|${description}`
bocLegacyFp(rec) == Fp("bocleg", rec.day, 0, << Abs(bocAmt(rec)) >>, rec.desc, "", <<>>)

bocFingerprint(rec) ==
    IF rec.bal.has
    THEN Fp("boc", rec.day, 0, moneyToFixed2(bocSigned(rec)), "", "", moneyToFixed2(rec.bal.v))
    ELSE bocLegacyFp(rec)

-----------------------------------------------------------------------------
(* The store *)

Row(id, user, account, category, amount, type, day, desc, hash, deleted) ==
    [id |-> id, user_id |-> user, account_id |-> account, category_id |-> category,
     amount |-> amount, type |-> type, date |-> day, description |-> desc,
     unique_hash |-> hash, is_deleted |-> deleted]

Cat(id, user, name, type, system) ==
    [id |-> id, user_id |-> user, name |-> name, type |-> type, is_system |-> system]

Acc(id, user, name, balance) ==
    [id |-> id, user_id |-> user, name |-> name, balance |-> balance, writes |-> 0]

RECURSIVE SumAmounts(_)
SumAmounts(rows) ==
    IF rows = {} THEN 0
    ELSE LET r == CHOOSE x \in rows : TRUE IN r.amount + SumAmounts(rows \ {r})

\* variant of SumSeq: the amounts summed without their sign
RECURSIVE SumSeqUnsigned(_)
SumSeqUnsigned(rows) ==
    IF rows = <<>> THEN 0
    ELSE (IF Head(rows).amount < 0 THEN 0 - Head(rows).amount ELSE Head(rows).amount)
         + SumSeqUnsigned(Tail(rows))

\* newRows.reduce((sum, r) => sum + Number(r.amount), 0)
RECURSIVE SumSeq(_)
SumSeq(rows) == IF rows = <<>> THEN 0 ELSE Head(rows).amount + SumSeq(Tail(rows))

\* idx_transactions_user_unique_hash_active: UNIQUE (user_id, unique_hash)
\* WHERE unique_hash IS NOT NULL AND is_deleted = false
UniqueHashOk(rows) ==
    \A r1, r2 \in rows :
        (/\ r1.id # r2.id
         /\ r1.user_id = r2.user_id
         /\ r1.unique_hash = r2.unique_hash
         /\ r1.unique_hash # NullHash
         /\ ~r1.is_deleted /\ ~r2.is_deleted) => FALSE

\* insert(seg).select('id'): the rows of one request as the store would hold them
StoredRows(seg, firstId) ==
    { Row(firstId + i - 1, seg[i].user_id, seg[i].account_id, seg[i].category_id,
          seg[i].amount, seg[i].type, seg[i].date, seg[i].description,
          seg[i].unique_hash, FALSE) : i \in 1..Len(seg) }

-----------------------------------------------------------------------------
(* Session state *)

IdleLoc ==
    [accountId |-> 0, byKey |-> {}, createdCategoryIds |-> {}, toInsert |-> <<>>,
     hashQuery |-> {}, existedHashSet |-> {}, newRows |-> <<>>, idx |-> 0,
     insertedIds |-> {}, delta |-> 0, current |-> 0, ownWrites |-> 0, violation |-> FALSE,
     snap |-> <<>>]

NoToast == [title |-> "none", stated |-> {}, imported |-> 0]

\* toast({ title: '导入成功', description: `已导入 ${n} 条记录（5 秒内可撤回）` })
SuccessToast(n) == [title |-> "success", stated |-> {"imported"}, imported |-> n]

\* the toasts whose text holds no number
PlainToast(title) == [title |-> title, stated |-> {}, imported |-> 0]

\* resolveAccountId: accounts.find(name includes the provider's name) else accounts[0]
ProviderName(provider) == IF provider = "wechat" THEN "WeChat" ELSE "BOC"

OwnAccounts(accs, userId) == SelectSeq(accs, LAMBDA a : a.user_id = userId)

resolveAccountId(accs, provider) ==
    LET hits == SelectSeq(accs, LAMBDA a : a.name = ProviderName(provider))
    IN IF hits # <<>> THEN hits[1].id ELSE accs[1].id

AccIndex(accs, id) == CHOOSE i \in 1..Len(accs) : accs[i].id = id

BalanceOf(accs, id) == accs[AccIndex(accs, id)].balance

\* update({ balance }).eq('id', accountId)
WriteBalance(accs, id, b) ==
    [accs EXCEPT ![AccIndex(accs, id)] =
        [@ EXCEPT !.balance = b, !.writes = @ + 1]]

\* byKey.set(`${c.type}:${c.name}`, c.id) for every category of the user
ByKeyOf(cats, userId) ==
    { [type |-> c.type, name |-> c.name, id |-> c.id] : c \in { x \in cats : x.user_id = userId } }

HasKey(byKey, type, name) == \E k \in byKey : k.type = type /\ k.name = name

\* byKey.get(key): with several categories of one key the last one set wins
GetKey(byKey, type, name) ==
    LET ids == { k.id : k \in { x \in byKey : x.type = type /\ x.name = name } }
    IN CHOOSE i \in ids : \A j \in ids : j <= i

\* needPairs of ImportWechatDialog: the (type, name) pairs of the non-neutral records
needPairs(recs) ==
    { [type |-> mapWechatTypeToTransaction(recs[i].inout),
       name |-> pickCategoryName(mapWechatTypeToTransaction(recs[i].inout))] :
      i \in { j \in 1..Len(recs) : mapWechatTypeToTransaction(recs[j].inout) # "transfer" } }

missingPairs(recs, byKey) == { k \in needPairs(recs) : ~HasKey(byKey, k.type, k.name) }

NewRow(userId, accountId, categoryId, amount, type, day, desc, hash) ==
    [user_id |-> userId, account_id |-> accountId, category_id |-> categoryId,
     amount |-> amount, type |-> type, date |-> day, description |-> desc,
     unique_hash |-> hash]

HashesOf(rows) == { rows[i].unique_hash : i \in 1..Len(rows) }

\* variant of uniqSetOf: uniqSet.add is never reached
uniqSetNeverFilled(toInsert) == {}

\* uniqSet: the fingerprints of the rows pushed so far
uniqSetOf(toInsert) == HashesOf(toInsert)

\* the record loop of ImportWechatDialog.onImport
RECURSIVE wechatRecordLoop(_, _, _, _, _, _)
wechatRecordLoop(recs, i, toInsert, accountId, byKey, now) ==
    IF i > Len(recs) THEN toInsert
    ELSE LET rec == recs[i]
             type == mapWechatTypeToTransaction(rec.inout)
             fingerprint == wechatFingerprint(rec, now)
             row == NewRow(Owner, accountId, GetKey(byKey, type, pickCategoryName(type)),
                           wechatSigned(rec), type,
                           dateStrOf(normalizeDateTime(rec.time), now), rec.desc, fingerprint)
         IN IF type = "transfer"
            THEN wechatRecordLoop(recs, i + 1, toInsert, accountId, byKey, now)
            ELSE IF fingerprint \in uniqSetOf(toInsert)
            THEN wechatRecordLoop(recs, i + 1, toInsert, accountId, byKey, now)
            ELSE wechatRecordLoop(recs, i + 1, Append(toInsert, row), accountId, byKey, now)

wechatLegacyFps(recs, now) ==
    { wechatLegacyFp(recs[i], now) :
      i \in { j \in 1..Len(recs) : mapWechatTypeToTransaction(recs[j].inout) # "transfer" } }

bocLegacyFps(recs) == { bocLegacyFp(recs[i]) : i \in 1..Len(recs) }

\* `${d}|${cents}|${description}` of a stored row or of a row to insert
FieldsSig(r) == [day |-> r.date, cents |-> Abs(r.amount), desc |-> r.description]

\* variant of existedFieldsSetOf: the rows of every user are looked at
existedFieldsSetAnyUser(txs, userId) == { FieldsSig(r) : r \in txs }

\* select('date, amount, description').eq('user_id', userId), mapped to the signatures
existedFieldsSetOf(txs, userId) == { FieldsSig(r) : r \in { x \in txs : x.user_id = userId } }

\* toInsert.filter(r => !existedHashSet.has(r.unique_hash) && !existedFieldsSet.has(sig))
KeepRow(r, existedHashSet, existedFieldsSet) ==
    /\ r.unique_hash \notin existedHashSet
    /\ FieldsSig(r) \notin existedFieldsSet

filterNewRows(toInsert, existedHashSet, existedFieldsSet) ==
    SelectSeq(toInsert, LAMBDA r : KeepRow(r, existedHashSet, existedFieldsSet))

\* first record at or after i that survives `if (!amt) continue`, else Len + 1
RECURSIVE bocNext(_, _)
bocNext(recs, i) ==
    IF i > Len(recs) THEN i
    ELSE IF bocAmt(recs[i]) = 0 THEN bocNext(recs, i + 1)
    ELSE i

\* the body of ImportBocDialog's record loop after resolveCategoryId returned
bocPush(toInsert, rec, accountId, categoryId) ==
    LET fingerprint == bocFingerprint(rec)
    IN IF fingerprint \in uniqSetOf(toInsert) THEN toInsert
       ELSE Append(toInsert, NewRow(Owner, accountId, categoryId, bocSigned(rec),
                                    bocType(rec), rec.day, rec.desc, fingerprint))

-----------------------------------------------------------------------------
(* The picked file and its parsing (lib/wechat.ts parseWechatCsv, lib/boc.ts  *)
(* parseBocPdf)                                                              *)

tolY == 3           \* const tolY = 3.0

\* a text item of a PDF page: transform[4], transform[5], str; `page` is the
\* page getTextContent read it from (the Pt of the parsers does not keep it)
Glyph(x, y, text) == [x |-> x, y |-> y, text |-> text, page |-> 1]
GlyphOn(page, x, y, text) == [x |-> x, y |-> y, text |-> text, page |-> page]

\* the str of an item: a header label, a date, a number, other text
Label(s) == [k |-> "label", s |-> s, n |-> 0]
DateText(day) == [k |-> "date", s |-> "", n |-> day]
NumText(v) == [k |-> "num", s |-> "", n |-> v]
Word(s) == [k |-> "word", s |-> s, n |-> 0]

\* HEADER_CANDIDATES, column by column, in the order pick() tries the names
DateLabels == << "txnDate", "bookDate", "date" >>
DebitLabels == << "debitAmt", "debitSum", "spend" >>
CreditLabels == << "creditAmt", "creditSum", "earn" >>
AmtLabels == << "amount" >>
BalLabels == << "balance", "available", "current" >>
MemoLabels == << "memo", "txnMemo", "note" >>
ColumnLabels ==
    << DateLabels, << "ccy", "ccyKind", "ccyName" >>, DebitLabels, CreditLabels, AmtLabels,
       BalLabels, MemoLabels, << "peerInfo", "peerHolder", "peerName", "counterparty" >> >>

\* a file on disk: a PDF (its user password, "" if it is not encrypted, and its
\* text items in page order) or a CSV (has the header line or not, its records);
\* kind "cmb" is a PDF picked in ImportCmbDialog
RawFile(kind, key, glyphs, headerLine, records) ==
    [kind |-> kind, key |-> key, glyphs |-> glyphs, headerLine |-> headerLine,
     records |-> records]
NoFile == RawFile("none", "", <<>>, FALSE, <<>>)
PdfFile(key, glyphs) == RawFile("pdf", key, glyphs, FALSE, <<>>)
CsvFile(headerLine, records) == RawFile("csv", "", <<>>, headerLine, records)
CmbFile(glyphs) == RawFile("cmb", "", glyphs, FALSE, <<>>)

NoInput == [file |-> NoFile, password |-> "", loading |-> FALSE]

\* what a parser call comes back with
Thrown(error) == [ok |-> FALSE, error |-> error, result |-> NoResult]
Parsed(res) == [ok |-> TRUE, error |-> "", result |-> res]

\* variant of getDocument: the library opens any document
getDocumentIgnoresLock(file, password) == TRUE

\* pdfjsLib.getDocument({ data, password }).promise resolves for a document that
\* is not encrypted or that the password opens, else rejects (PasswordException)
getDocument(file, password) == file.key = "" \/ file.key = password

\* `const s = it.str.trim(); if (!s) continue;`
ptsOf(glyphs) == SelectSeq(glyphs, LAMBDA g : g.text # Word(""))

\* pts.find((p) => p.text === h): position of the first hit, 0 if none
RECURSIVE findText(_, _, _)
findText(pts, h, i) ==
    IF i > Len(pts) THEN 0
    ELSE IF pts[i].text = Label(h) THEN i
    ELSE findText(pts, h, i + 1)

NoCol == [label |-> "", x |-> 0]

\* pick(...names): the first of the names that is present, with its x
RECURSIVE pick(_, _, _)
pick(pts, names, i) ==
    IF i > Len(names) THEN NoCol
    ELSE LET hit == findText(pts, names[i], 1)
         IN IF hit # 0 THEN [label |-> names[i], x |-> pts[hit].x]
            ELSE pick(pts, names, i + 1)

\* [hDate, hCcy, hDebit, hCredit, hAmt, hBal, hMemo, hPeer].filter(Boolean)
colsOf(pts) ==
    SelectSeq([c \in 1..Len(ColumnLabels) |-> pick(pts, ColumnLabels[c], 1)],
              LAMBDA c : c # NoCol)

\* the first key of rowsMap within tolY of y, 0 if none
RECURSIVE keyFor(_, _, _)
keyFor(groups, y, i) ==
    IF i > Len(groups) THEN 0
    ELSE IF Abs(groups[i].y - y) <= tolY THEN i
    ELSE keyFor(groups, y, i + 1)

\* "Group by Y within tolerance": rowsMap in insertion order
RECURSIVE groupByY(_, _, _, _)
groupByY(pts, cols, i, groups) ==
    IF i > Len(pts) THEN groups
    ELSE LET p == pts[i]
             k == keyFor(groups, p.y, 1)
         IN IF \E c \in 1..Len(cols) : p.text = Label(cols[c].label)
            THEN groupByY(pts, cols, i + 1, groups)
            ELSE IF k = 0
            THEN groupByY(pts, cols, i + 1, Append(groups, [y |-> p.y, ps |-> << p >>]))
            ELSE groupByY(pts, cols, i + 1, [groups EXCEPT ![k].ps = Append(@, p)])

\* Array.from(rowsMap.keys()).sort((a,b)=>b-a)
RECURSIVE sortByYDesc(_)
sortByYDesc(groups) ==
    IF groups = <<>> THEN <<>>
    ELSE LET last == groups[Len(groups)]
             rest == sortByYDesc(SubSeq(groups, 1, Len(groups) - 1))
         IN SelectSeq(rest, LAMBDA g : g.y >= last.y) \o << last >>
            \o SelectSeq(rest, LAMBDA g : g.y < last.y)

\* rowsMap.get(y).sort((a,b)=>a.x-b.x), a stable sort
RECURSIVE sortByX(_)
sortByX(ps) ==
    IF ps = <<>> THEN <<>>
    ELSE LET last == ps[Len(ps)]
             rest == sortByX(SubSeq(ps, 1, Len(ps) - 1))
         IN SelectSeq(rest, LAMBDA q : q.x <= last.x) \o << last >>
            \o SelectSeq(rest, LAMBDA q : q.x > last.x)

\* `for (let i=0;i<colXs.length;i++) { const d=Math.abs(p.x-colXs[i]); if (d<best){best=d; idx=i;} }`
\* best < 0 stands for Infinity
RECURSIVE nearestFrom(_, _, _, _, _)
nearestFrom(colXs, x, i, idx, best) ==
    IF i > Len(colXs) THEN idx
    ELSE LET d == Abs(x - colXs[i])
         IN IF best < 0 \/ d < best
            THEN nearestFrom(colXs, x, i + 1, i, d)
            ELSE nearestFrom(colXs, x, i + 1, idx, best)

\* variant of nearestColumn: the last column that starts at or left of x
columnToTheLeft(colXs, x) ==
    LET left == { i \in 1..Len(colXs) : colXs[i] <= x }
    IN IF left = {} THEN 1
       ELSE CHOOSE i \in left : \A j \in left : colXs[j] <= colXs[i]

\* "find nearest column by x"
nearestColumn(colXs, x) == nearestFrom(colXs, x, 1, 1, 0 - 1)

\* cells[idx] = (cells[idx] ? cells[idx] + ' ' : '') + p.text; a cell is the
\* sequence of the items joined into it, each with the point it came from
RECURSIVE fillCells(_, _, _, _)
fillCells(ps, colXs, i, cells) ==
    IF i > Len(ps) THEN cells
    ELSE fillCells(ps, colXs, i + 1,
                   [cells EXCEPT ![nearestColumn(colXs, ps[i].x)] = Append(@, ps[i])])

\* /^\d{4}[-\/.]\d{2}[-\/.]\d{2}(?:\s+\d{2}:\d{2}(:\d{2})?)?$/.test(cells[0])
dateLike(cell) == Len(cell) = 1 /\ cell[1].text.k = "date"

\* the rows of the table, top of the page first
rowsOf(pts, cols) ==
    LET groups == sortByYDesc(groupByY(pts, cols, 1, <<>>))
        colXs == [c \in 1..Len(cols) |-> cols[c].x]
        all == [g \in 1..Len(groups) |->
                   fillCells(sortByX(groups[g].ps), colXs, 1, [c \in 1..Len(cols) |-> <<>>])]
    IN SelectSeq(all, LAMBDA r : dateLike(r[1]))

\* r[header.indexOf(h.label)] for the header picked from names, '' if none was picked
cellUnder(row, cols, names) ==
    LET hits == { c \in 1..Len(cols) : \E n \in 1..Len(names) : cols[c].label = names[n] }
    IN IF hits = {} THEN <<>> ELSE row[CHOOSE c \in hits : TRUE]

\* the text of a cell as a number cell: '' and a number read as they are,
\* anything else is text Number() turns into NaN
cellNum(cell) ==
    IF cell = <<>> THEN Num(0)
    ELSE IF Len(cell) = 1 /\ cell[1].text.k = "num" THEN Num(cell[1].text.n)
    ELSE NotANumber

\* the text of a cell as a description; joined items stand as "joined"
cellWords(cell) ==
    IF cell = <<>> THEN ""
    ELSE IF Len(cell) = 1 THEN cell[1].text.s
    ELSE "joined"

\* rows.map(r => ({ 日期, 借方金额, 贷方金额, 金额, 余额, 摘要, ... }))
bocRecordOf(row, cols) ==
    LET bal == cellUnder(row, cols, BalLabels)
    IN BocRec(row[1][1].text.n,
              cellNum(cellUnder(row, cols, DebitLabels)),
              cellNum(cellUnder(row, cols, CreditLabels)),
              cellNum(cellUnder(row, cols, AmtLabels)),
              cellWords(cellUnder(row, cols, MemoLabels)),
              BalCell(bal # <<>>, bocAmountToNumber(cellNum(bal))))

parseBocPdf(file, password) ==
    IF ~getDocument(file, password) THEN Thrown("PasswordException")
    ELSE LET pts == ptsOf(file.glyphs)
             cols == colsOf(pts)
             rows == rowsOf(pts, cols)
         IN IF pick(pts, DateLabels, 1) = NoCol THEN Thrown("headerNotFound")
            ELSE Parsed([provider |-> "boc",
                         records |-> [r \in 1..Len(rows) |-> bocRecordOf(rows[r], cols)],
                         header |-> [c \in 1..Len(cols) |-> cols[c].label],
                         rows |-> rows])

tolTwice == 5       \* twice `const tol = 2.5` of parseCmbPdf

\* HEADER of lib/cmb.ts
CmbHeader == << "bookDate", "currency", "txnAmt", "onlineBal", "txnMemo", "counterInfo" >>

\* "Fallback approximate positions if missing": 36, 98.74, 156.26, 234.71,
\* 307.88, 417.64, to the nearest unit
CmbFallbackX == << 36, 99, 156, 235, 308, 418 >>

\* colOrder: the x of each header label that is on the page, else its fallback
cmbColOrder(pts) ==
    [c \in 1..Len(CmbHeader) |->
        IF findText(pts, CmbHeader[c], 1) # 0 THEN pts[findText(pts, CmbHeader[c], 1)].x
        ELSE CmbFallbackX[c]]

\* "Group by Y (rows)" of parseCmbPdf: groups in insertion order
RECURSIVE cmbGroupByY(_, _, _)
cmbGroupByY(pts, i, groups) ==
    IF i > Len(pts) THEN groups
    ELSE LET p == pts[i]
             near == { g \in 1..Len(groups) : 2 * Abs(groups[g].y - p.y) <= tolTwice }
             k == CHOOSE g \in near : \A h \in near : g <= h
         IN IF \E c \in 1..Len(CmbHeader) : p.text = Label(CmbHeader[c])
            THEN cmbGroupByY(pts, i + 1, groups)
            ELSE IF near = {}
            THEN cmbGroupByY(pts, i + 1, Append(groups, [y |-> p.y, ps |-> << p >>]))
            ELSE cmbGroupByY(pts, i + 1, [groups EXCEPT ![k].ps = Append(@, p)])

\* rows.map(r => ({ 记账日期, 货币, 交易金额, 联机余额, 交易摘要, 对手信息 }))
cmbRecordOf(row) ==
    [day |-> row[1][1].text.n, amt |-> cellNum(row[3]), bal |-> cellNum(row[4]),
     desc |-> cellWords(row[5])]

\* parseCmbPdf: no password is passed, page 1 alone is read, a missing header
\* label is replaced by its fallback position
parseCmbPdf(file) ==
    IF ~getDocument(file, "") THEN Thrown("PasswordException")
    ELSE LET pts == ptsOf(SelectSeq(file.glyphs, LAMBDA g : g.page = 1))
             colOrder == cmbColOrder(pts)
             groups == sortByYDesc(cmbGroupByY(pts, 1, <<>>))
             all == [g \in 1..Len(groups) |->
                        fillCells(sortByX(groups[g].ps), colOrder, 1,
                                  [c \in 1..Len(CmbHeader) |-> <<>>])]
             rows == SelectSeq(all, LAMBDA r : dateLike(r[1]))
         IN Parsed([provider |-> "cmb",
                    records |-> [r \in 1..Len(rows) |-> cmbRecordOf(rows[r])],
                    header |-> CmbHeader,
                    rows |-> rows])

\* parseWechatCsv: the header line is looked for, the lines after it are the records
parseWechatCsv(file) ==
    IF ~file.headerLine THEN Thrown("headerNotFound")
    ELSE Parsed([provider |-> "wechat", records |-> file.records])

\* const candidates = ["gb18030", "gbk", "gb2312", "utf-8"]
candidates == << "gb18030", "gbk", "gb2312", "utf-8" >>

\* The texts a buffer can decode to: "export" is an Alipay export (it holds
\* 支付宝, 交易时间 and the header line), "named" holds 支付宝 only, "timed"
\* holds 交易时间 without the header line (the export of another provider),
\* "garbled" holds neither, "" is the text of an empty buffer; "null" is what
\* tryDecode returns when TextDecoder throws on the encoding's label.
includes(text, anchor) ==
    \/ text = "export"
    \/ text = "named" /\ anchor = "alipay"
    \/ text = "timed" /\ anchor = "txnTime"

\* a CSV picked in ImportAlipayDialog: what its bytes decode to, encoding by
\* encoding, and the records below the header line of its text
AlipayFile(decodes, records) ==
    [kind |-> "alipay", key |-> "", glyphs |-> <<>>, headerLine |-> FALSE,
     records |-> records, decodes |-> decodes]

\* new TextDecoder(enc, { fatal: false }).decode(...), null if that throws
tryDecode(file, enc) == file.decodes[enc]

\* the loop of decodeBestEffort from candidate i on, then "Fallback to UTF-8
\* if nothing matched": `utf8 ?? ""`
RECURSIVE decodeFrom(_, _)
decodeFrom(file, i) ==
    IF i > Len(candidates)
    THEN (IF tryDecode(file, "utf-8") = "null" THEN "" ELSE tryDecode(file, "utf-8"))
    ELSE LET text == tryDecode(file, candidates[i])
         IN IF text \notin {"null", ""} /\ (includes(text, "alipay") \/ includes(text, "txnTime"))
            THEN text
            ELSE decodeFrom(file, i + 1)

decodeBestEffort(file) == decodeFrom(file, 1)

\* parseAlipayCsv: `if (!text) throw`, then the header line is looked for;
\* `text` of the result is the decoded text the records were read from
parseAlipayCsv(file) ==
    LET text == decodeBestEffort(file)
    IN IF text = "" THEN Thrown("decodeError")
       ELSE IF text # "export" THEN Thrown("headerNotFound")
       ELSE Parsed([provider |-> "alipay", records |-> file.records, text |-> text])

\* the parser of the dialog the file was picked in
parseFile(file, password) ==
    IF file.kind = "pdf" THEN parseBocPdf(file, password)
    ELSE IF file.kind = "cmb" THEN parseCmbPdf(file)
    ELSE IF file.kind = "alipay" THEN parseAlipayCsv(file)
    ELSE parseWechatCsv(file)

\* variant of afterParseError: the catch block leaves the old result in place
afterParseErrorKeeps(res) == res

\* the catch block of onFileChange: setResult(null)
afterParseError(res) == NoResult

\* toast({ title: "解析失败", description: message })
ParseFailedToast(error) == [title |-> "parseFailed", stated |-> {error}, imported |-> 0]

\* onFileChange up to `await parse...(file)`: setFileName, setLoading(true)
onFileChangeStart(p, file, password) ==
    /\ ~input[p].loading
    /\ input' = [input EXCEPT ![p] = [file |-> file, password |-> password, loading |-> TRUE]]
    /\ UNCHANGED <<today, transactions, accounts, categories, nextId, pc, result, loc, batches,
                   report, hist, delToasts, addDlg>>

\* onFileChange after the await: setResult(parsed), or the catch with
\* setResult(null); `finally` clears loading
onFileChangeEnd(p) ==
    /\ input[p].loading
    /\ LET out == parseFile(input[p].file, input[p].password)
       IN IF out.ok
          THEN /\ result' = [result EXCEPT ![p] = out.result]
               /\ report' = [report EXCEPT ![p] =
                                IF out.result.records = <<>> THEN PlainToast("noRowsParsed")
                                ELSE @]
          ELSE /\ result' = [result EXCEPT ![p] = afterParseError(@)]
               /\ report' = [report EXCEPT ![p] = ParseFailedToast(out.error)]
    /\ input' = [input EXCEPT ![p].loading = FALSE]
    /\ UNCHANGED <<today, transactions, accounts, categories, nextId, pc, loc, batches, hist,
                   delToasts, addDlg>>

-----------------------------------------------------------------------------
(* Initial ledger *)

FoodCat == Cat(5, Owner, "food", "expense", TRUE)
SalaryCat == Cat(6, Owner, "salary", "income", TRUE)
OtherCat == Cat(7, Owner, "other", "expense", TRUE)

LunchRec == WechatRec(RawTime("dash", 1, 1), "out", Num(50), "lunch", "o2")
SalaryRec == WechatRec(RawTime("dash", 1, 0), "in", Num(100), "salary", "o1")
BocLunchRec == BocRec(1, Num(50), Num(0), Num(0), "lunch", BalCell(TRUE, 1050))

\* Rows the ledger may hold before the first import of the model:
\*  1 a row stored under the legacy fingerprint whose description was edited since,
\*  2 a row from before fingerprints existed,
\*  3 a row of another owner,
\*  4 a soft-deleted row of the owner,
\*  5 a bank row stored under the legacy fingerprint, description edited since.
OldRows ==
    { Row(1, Owner, 2, 5, 0 - 50, "expense", 1, "lunch (edited)", wechatLegacyFp(LunchRec, 1), FALSE),
      Row(2, Owner, 2, 5, 0 - 50, "expense", 1, "lunch", NullHash, FALSE),
      Row(3, Stranger, 3, 8, 100, "income", 1, "salary", wechatFingerprint(SalaryRec, 1), FALSE),
      Row(4, Owner, 2, 5, 100, "income", 1, "salary (old)", wechatFingerprint(SalaryRec, 1), TRUE),
      Row(9, Owner, 1, 5, 0 - 50, "expense", 1, "lunch (edited)", bocLegacyFp(BocLunchRec), FALSE) }

InitAccounts ==
    << Acc(1, Owner, "Cash", 1000), Acc(2, Owner, "WeChat", 1000), Acc(3, Stranger, "Cash", 1000) >>

Init ==
    /\ today = 1
    /\ transactions \in { S \in SUBSET OldRows : Cardinality(S) <= 1 }
    /\ accounts = InitAccounts
    /\ categories \in { {FoodCat}, {FoodCat, SalaryCat, OtherCat} }
    /\ nextId = 10
    /\ pc = [p \in Procs |-> "idle"]
    /\ result = [p \in Procs |-> NoResult]
    /\ loc = [p \in Procs |-> IdleLoc]
    /\ batches = <<>>
    /\ report = [p \in Procs |-> NoToast]
    /\ hist = [p \in Procs |-> <<>>]
    /\ input = [p \in Procs |-> NoInput]
    /\ delToasts = <<>>
    /\ addDlg = [p \in Procs |-> <<>>]

-----------------------------------------------------------------------------
(* onFileChange and onImport *)

\* onFileChange: the parsed file becomes the dialog's result
onFileChange(p, file) ==
    /\ pc[p] = "idle"
    /\ result[p] = NoResult
    /\ result' = [result EXCEPT ![p] = file]
    /\ UNCHANGED <<today, transactions, accounts, categories, nextId, pc, loc, batches,
                   report, hist, input, delToasts, addDlg>>

\* what a finished run is seen to have done (read off the store, not off the locals)
Outcome(title, l, txs, accs) ==
    LET known == l.accountId # 0
        mine == { r \in txs : r.id \in l.insertedIds }
    IN [title |-> title,
        committed |-> Cardinality(mine),
        sum |-> SumAmounts(mine),
        balBefore |-> IF known THEN BalanceOf(l.snap, l.accountId) ELSE 0,
        balAfter |-> IF known THEN BalanceOf(accs, l.accountId) ELSE 0,
        balWrites |-> IF known
                      THEN accs[AccIndex(accs, l.accountId)].writes
                           - l.snap[AccIndex(l.snap, l.accountId)].writes
                      ELSE 0,
        ownWrites |-> l.ownWrites,
        violation |-> l.violation,
        quiet |-> \A b \in 1..Len(batches) : ~batches[b].undone]

NewBatch(p, l) ==
    [p |-> p, run |-> Len(hist[p]) + 1, userId |-> Owner, accountId |-> l.accountId, insertedIds |-> l.insertedIds,
     delta |-> l.delta, createdCategoryIds |-> l.createdCategoryIds,
     undone |-> FALSE, upc |-> "avail", current |-> 0, deletable |-> {},
     clicks |-> 0, faults |-> 0]

\* the run ends: a toast is shown, `finally` clears `importing`
EndRun(p, toast, l, txs, accs) ==
    /\ pc' = [pc EXCEPT ![p] = "idle"]
    /\ loc' = [loc EXCEPT ![p] = IdleLoc]
    /\ report' = [report EXCEPT ![p] = toast]
    /\ hist' = [hist EXCEPT ![p] = Append(@, Outcome(toast.title, l, txs, accs))]
    /\ batches' = IF toast.title = "success" THEN Append(batches, NewBatch(p, l)) ELSE batches

\* the button is enabled (result set, not importing) and records exist
onImport(p) ==
    /\ pc[p] = "idle"
    /\ result[p] # NoResult
    /\ Len(result[p].records) > 0
    /\ Len(hist[p]) < MaxRuns
    /\ pc' = [pc EXCEPT ![p] = "accounts"]
    /\ loc' = [loc EXCEPT ![p] = [IdleLoc EXCEPT !.snap = accounts]]
    /\ UNCHANGED <<today, transactions, accounts, categories, nextId, result, input, delToasts, addDlg, batches,
                   report, hist>>

\* toInsert is complete: stop on an empty batch, else ask for the existing hashes
AfterRecordLoop(p, l) ==
    IF l.toInsert = <<>>
    THEN EndRun(p, PlainToast("noRecords"), l, transactions, accounts)
    ELSE /\ pc' = [pc EXCEPT ![p] = "byHash"]
         /\ loc' = [loc EXCEPT ![p] =
                [l EXCEPT !.hashQuery =
                    HashesOf(l.toInsert) \cup
                    (IF result[p].provider = "wechat"
                     THEN wechatLegacyFps(result[p].records, today)
                     ELSE bocLegacyFps(result[p].records))]]
         /\ UNCHANGED <<batches, report, hist>>

\* resolveAccountId answered
StepAccounts(p) ==
    /\ pc[p] = "accounts"
    /\ LET own == OwnAccounts(accounts, Owner)
           l == [loc[p] EXCEPT !.accountId = resolveAccountId(own, result[p].provider)]
           first == bocNext(result[p].records, 1)
       IN /\ own # <<>>
          /\ IF result[p].provider = "wechat"
             THEN /\ pc' = [pc EXCEPT ![p] = "cats"]
                  /\ loc' = [loc EXCEPT ![p] = l]
                  /\ UNCHANGED <<batches, report, hist>>
             ELSE IF first > Len(result[p].records)
             THEN AfterRecordLoop(p, l)
             ELSE /\ pc' = [pc EXCEPT ![p] = "catSel"]
                  /\ loc' = [loc EXCEPT ![p] = [l EXCEPT !.idx = first]]
                  /\ UNCHANGED <<batches, report, hist>>
    /\ UNCHANGED <<today, transactions, accounts, categories, nextId, result, input, delToasts, addDlg>>

\* ImportWechatDialog: the select of all categories answered
StepCats(p) ==
    /\ pc[p] = "cats"
    /\ LET byKey == ByKeyOf(categories, Owner)
           l == [loc[p] EXCEPT !.byKey = byKey]
       IN IF missingPairs(result[p].records, byKey) # {}
          THEN /\ pc' = [pc EXCEPT ![p] = "insCats"]
               /\ loc' = [loc EXCEPT ![p] = l]
               /\ UNCHANGED <<batches, report, hist>>
          ELSE AfterRecordLoop(p,
                   [l EXCEPT !.toInsert =
                       wechatRecordLoop(result[p].records, 1, <<>>, l.accountId, byKey, today)])
    /\ UNCHANGED <<today, transactions, accounts, categories, nextId, result, input, delToasts, addDlg>>

\* the categories of one insert request, with the ids the store gives them
RECURSIVE NewCats(_, _)
NewCats(pairs, firstId) ==
    IF pairs = {} THEN {}
    ELSE LET k == CHOOSE x \in pairs : TRUE
         IN {Cat(firstId, Owner, k.name, k.type, FALSE)} \cup NewCats(pairs \ {k}, firstId + 1)

\* ImportWechatDialog: the insert of the missing categories answered
StepInsCats(p) ==
    /\ pc[p] = "insCats"
    /\ LET missing == missingPairs(result[p].records, loc[p].byKey)
           inserted == NewCats(missing, nextId)
           byKey == loc[p].byKey \cup ByKeyOf(inserted, Owner)
           l == [loc[p] EXCEPT !.byKey = byKey,
                               !.createdCategoryIds = { c.id : c \in inserted }]
       IN /\ categories' = categories \cup inserted
          /\ nextId' = nextId + Cardinality(missing)
          /\ AfterRecordLoop(p,
                 [l EXCEPT !.toInsert =
                     wechatRecordLoop(result[p].records, 1, <<>>, l.accountId, byKey, today)])
    /\ UNCHANGED <<today, transactions, accounts, result, input, delToasts, addDlg>>

\* ImportBocDialog: the loop goes on after record idx got its category
BocContinue(p, l, categoryId) ==
    LET recs == result[p].records
        pushed == [l EXCEPT !.toInsert = bocPush(l.toInsert, recs[l.idx], l.accountId, categoryId)]
        next == bocNext(recs, l.idx + 1)
    IN IF next > Len(recs)
       THEN AfterRecordLoop(p, [pushed EXCEPT !.idx = 0])
       ELSE /\ pc' = [pc EXCEPT ![p] = "catSel"]
            /\ loc' = [loc EXCEPT ![p] = [pushed EXCEPT !.idx = next]]
            /\ UNCHANGED <<batches, report, hist>>

\* resolveCategoryId of ImportBocDialog: select by name, limit 1
StepCatSel(p) ==
    /\ pc[p] = "catSel"
    /\ LET name == pickCategoryName(bocType(result[p].records[loc[p].idx]))
           found == { c \in categories : c.user_id = Owner /\ c.name = name }
       IN IF found = {}
          THEN /\ pc' = [pc EXCEPT ![p] = "catIns"]
               /\ UNCHANGED <<loc, batches, report, hist>>
          ELSE \E c \in found : BocContinue(p, loc[p], c.id)
    /\ UNCHANGED <<today, transactions, accounts, categories, nextId, result, input, delToasts, addDlg>>

\* resolveCategoryId of ImportBocDialog: the insert of the new category answered
StepCatIns(p) ==
    /\ pc[p] = "catIns"
    /\ LET type == bocType(result[p].records[loc[p].idx])
       IN /\ categories' = categories \cup {Cat(nextId, Owner, pickCategoryName(type), type, FALSE)}
          /\ nextId' = nextId + 1
          /\ BocContinue(p, [loc[p] EXCEPT !.createdCategoryIds = @ \cup {nextId}], nextId)
    /\ UNCHANGED <<today, transactions, accounts, result, input, delToasts, addDlg>>

\* select('unique_hash').eq('user_id', userId).in('unique_hash', [...newFps, ...legacyFps])
StepByHash(p) ==
    /\ pc[p] = "byHash"
    /\ pc' = [pc EXCEPT ![p] = "byFields"]
    /\ loc' = [loc EXCEPT ![p].existedHashSet =
            { r.unique_hash : r \in { x \in transactions :
                                        x.user_id = Owner /\ x.unique_hash \in loc[p].hashQuery } }]
    /\ UNCHANGED <<today, transactions, accounts, categories, nextId, result, input, delToasts, addDlg, batches,
                   report, hist>>

\* select('date, amount, description').eq('user_id', userId), then the filter
StepByFields(p) ==
    /\ pc[p] = "byFields"
    /\ LET newRows == filterNewRows(loc[p].toInsert, loc[p].existedHashSet,
                                    existedFieldsSetOf(transactions, Owner))
           l == [loc[p] EXCEPT !.newRows = newRows, !.idx = 1]
       IN IF newRows = <<>>
          THEN EndRun(p, PlainToast("noNew"), l, transactions, accounts)
          ELSE /\ pc' = [pc EXCEPT ![p] = "insert"]
               /\ loc' = [loc EXCEPT ![p] = l]
               /\ UNCHANGED <<batches, report, hist>>
    /\ UNCHANGED <<today, transactions, accounts, categories, nextId, result, input, delToasts, addDlg>>

\* newRows.slice(i, i + chunk)
Segment(rows, i) == SubSeq(rows, i, IF i + ChunkRows - 1 < Len(rows) THEN i + ChunkRows - 1 ELSE Len(rows))

\* variant of InsertAccepted: the table has no unique index
InsertAcceptedUnindexed(txs, rows) == TRUE

\* the store takes the rows of an insert request if its unique index allows them
InsertAccepted(txs, rows) == UniqueHashOk(txs \cup rows)

\* one chunk: insert(seg).select('id'); `if (insErr) throw insErr`
StepInsert(p) ==
    /\ pc[p] = "insert"
    /\ LET seg == Segment(loc[p].newRows, loc[p].idx)
           rows == StoredRows(seg, nextId)
           l == [loc[p] EXCEPT !.insertedIds = @ \cup { r.id : r \in rows },
                               !.idx = @ + ChunkRows,
                               !.delta = SumSeq(loc[p].newRows)]
       IN IF ~InsertAccepted(transactions, rows)
          THEN /\ EndRun(p, PlainToast("failed"), [loc[p] EXCEPT !.violation = TRUE],
                         transactions, accounts)
               /\ UNCHANGED <<transactions, nextId>>
          ELSE /\ transactions' = transactions \cup rows
               /\ nextId' = nextId + Len(seg)
               /\ IF l.idx <= Len(l.newRows)
                  THEN /\ pc' = pc
                       /\ loc' = [loc EXCEPT ![p] = [l EXCEPT !.delta = 0]]
                       /\ UNCHANGED <<batches, report, hist>>
                  ELSE IF l.delta # 0
                  THEN /\ pc' = [pc EXCEPT ![p] = "readBal"]
                       /\ loc' = [loc EXCEPT ![p] = l]
                       /\ UNCHANGED <<batches, report, hist>>
                  ELSE EndRun(p, SuccessToast(Len(l.newRows)), l, transactions', accounts)
    /\ UNCHANGED <<today, accounts, categories, result, input, delToasts, addDlg>>

\* select('id, balance').eq('id', accountId).single()
StepReadBal(p) ==
    /\ pc[p] = "readBal"
    /\ pc' = [pc EXCEPT ![p] = "writeBal"]
    /\ loc' = [loc EXCEPT ![p].current = BalanceOf(accounts, loc[p].accountId)]
    /\ UNCHANGED <<today, transactions, accounts, categories, nextId, result, input, delToasts, addDlg, batches,
                   report, hist>>

\* update({ balance: current + delta }), then the success toast with its undo button
StepWriteBal(p) ==
    /\ pc[p] = "writeBal"
    /\ LET l == [loc[p] EXCEPT !.ownWrites = @ + 1]
       IN /\ accounts' = WriteBalance(accounts, l.accountId, l.current + l.delta)
          /\ EndRun(p, SuccessToast(Len(l.newRows)), l, transactions, accounts')
    /\ UNCHANGED <<today, transactions, categories, nextId, result, input, delToasts, addDlg>>

\* a request of onImport comes back with an error: throw, catch, '导入失败'
StoreError(p) ==
    /\ pc[p] \in {"accounts", "cats", "insCats", "catSel", "catIns", "byHash", "byFields",
                  "insert", "readBal", "writeBal"}
    /\ EndRun(p, PlainToast("failed"), loc[p], transactions, accounts)
    /\ UNCHANGED <<today, transactions, accounts, categories, nextId, result, input, delToasts, addDlg>>

\* midnight passes; a run reads the clock in one synchronous stretch, so the
\* midnights that matter are the ones between two runs
Tick ==
    /\ today < MaxDay
    /\ \A p \in Procs : pc[p] = "idle"
    /\ \E p \in Procs : hist[p] # <<>>
    /\ today' = today + 1
    /\ UNCHANGED <<transactions, accounts, categories, nextId, pc, result, input, delToasts, addDlg, loc, batches,
                   report, hist>>

-----------------------------------------------------------------------------
(* The undo button of a success toast *)

\* `if (createdCategoryIds.length)`, else the handler is through
AfterBalance(bt) == IF bt.createdCategoryIds # {} THEN "uCatUse" ELSE "done"

\* variant of AfterDelete: the balance is left as the import wrote it
AfterDeleteKeepsBalance(bt) == AfterBalance(bt)

\* `if (delta !== 0)`
AfterDelete(bt) == IF bt.delta # 0 THEN "uReadBal" ELSE AfterBalance(bt)

\* `if (insertedIds.length)`
FirstUndoStep(bt) == IF bt.insertedIds # {} THEN "uDelete" ELSE AfterDelete(bt)

\* the handler returned: its locals are gone
Leave(bt) == IF bt.upc = "done" THEN [bt EXCEPT !.current = 0, !.deletable = {}] ELSE bt

\* variant of UndoBlocked: the flag is not looked at
UndoNeverBlocked(bt) == FALSE

\* `if (undone) return;`
UndoBlocked(bt) == bt.undone

\* onClick of the undo button
UndoClick(b) ==
    /\ b \in 1..Len(batches)
    /\ batches[b].clicks < MaxClicks
    /\ LET bt == batches[b]
       IN batches' = [batches EXCEPT ![b] =
            IF UndoBlocked(bt)
            THEN [bt EXCEPT !.clicks = bt.clicks + 1]
            ELSE Leave([bt EXCEPT !.clicks = bt.clicks + 1, !.undone = TRUE,
                                  !.upc = FirstUndoStep(bt)])]
    /\ UNCHANGED <<today, transactions, accounts, categories, nextId, pc, result, input, delToasts, addDlg, loc,
                   report, hist>>

\* variant of undoTargets: rows the user has deleted meanwhile are left alone
undoTargetsActive(bt, txs) ==
    { r \in txs : r.id \in bt.insertedIds /\ r.user_id = bt.userId /\ ~r.is_deleted }

\* the rows .in('id', insertedIds).eq('user_id', userId) selects
undoTargets(bt, txs) == { r \in txs : r.id \in bt.insertedIds /\ r.user_id = bt.userId }

\* delete().in('id', insertedIds).eq('user_id', userId)
UndoDelete(b) ==
    /\ b \in 1..Len(batches)
    /\ batches[b].upc = "uDelete"
    /\ transactions' = transactions \ undoTargets(batches[b], transactions)
    /\ batches' = [batches EXCEPT ![b] = Leave([@ EXCEPT !.upc = AfterDelete(batches[b])])]
    /\ UNCHANGED <<today, accounts, categories, nextId, pc, result, input, delToasts, addDlg, loc, report, hist>>

\* select('id, balance').eq('id', accountId).single()
UndoReadBal(b) ==
    /\ b \in 1..Len(batches)
    /\ batches[b].upc = "uReadBal"
    /\ batches' = [batches EXCEPT ![b].upc = "uWriteBal",
                                  ![b].current = BalanceOf(accounts, batches[b].accountId)]
    /\ UNCHANGED <<today, transactions, accounts, categories, nextId, pc, result, input, delToasts, addDlg, loc,
                   report, hist>>

\* update({ balance: current - delta })
UndoWriteBal(b) ==
    /\ b \in 1..Len(batches)
    /\ batches[b].upc = "uWriteBal"
    /\ accounts' = WriteBalance(accounts, batches[b].accountId,
                                batches[b].current - batches[b].delta)
    /\ batches' = [batches EXCEPT ![b] = Leave([@ EXCEPT !.upc = AfterBalance(batches[b])])]
    /\ UNCHANGED <<today, transactions, categories, nextId, pc, result, input, delToasts, addDlg, loc, report, hist>>

\* variant of usedCategories: no created category counts as used
usedCategoriesNone(bt, txs) == {}

\* `used`: the category_id values of the rows that
\* select('category_id').eq('user_id', userId).in('category_id', createdCategoryIds) returns
usedCategories(bt, txs) ==
    { r.category_id : r \in { x \in txs : x.user_id = bt.userId
                                          /\ x.category_id \in bt.createdCategoryIds } }

\* select('category_id').eq('user_id', userId).in('category_id', createdCategoryIds)
UndoCatUse(b) ==
    /\ b \in 1..Len(batches)
    /\ batches[b].upc = "uCatUse"
    /\ LET used == usedCategories(batches[b], transactions)
           deletable == batches[b].createdCategoryIds \ used
       IN batches' = [batches EXCEPT ![b] =
            Leave([@ EXCEPT !.deletable = deletable,
                            !.upc = IF deletable # {} THEN "uDelCats" ELSE "done"])]
    /\ UNCHANGED <<today, transactions, accounts, categories, nextId, pc, result, input, delToasts, addDlg, loc,
                   report, hist>>

\* delete().in('id', deletable).eq('user_id', userId).eq('is_system', false);
\* transactions.category_id REFERENCES categories(id) ON DELETE CASCADE
UndoDelCats(b) ==
    /\ b \in 1..Len(batches)
    /\ batches[b].upc = "uDelCats"
    /\ LET gone == { c \in categories : /\ c.id \in batches[b].deletable
                                        /\ c.user_id = batches[b].userId
                                        /\ ~c.is_system }
       IN /\ categories' = categories \ gone
          /\ transactions' = { r \in transactions : r.category_id \notin { c.id : c \in gone } }
    /\ batches' = [batches EXCEPT ![b] = Leave([@ EXCEPT !.upc = "done"])]
    /\ UNCHANGED <<today, accounts, nextId, pc, result, input, delToasts, addDlg, loc, report, hist>>

\* a request of the undo handler comes back with an error; the handler reads no
\* error of delete and update, skips the balance write on accErr, and takes a
\* failed category_id select for "no category in use"
UndoStoreError(b) ==
    /\ b \in 1..Len(batches)
    /\ batches[b].upc \in {"uDelete", "uReadBal", "uWriteBal", "uCatUse", "uDelCats"}
    /\ batches[b].faults < MaxFaults
    /\ LET bt == batches[b]
       IN batches' = [batches EXCEPT ![b] =
      Leave([bt EXCEPT !.faults = bt.faults + 1,
                       !.deletable = IF bt.upc = "uCatUse" THEN bt.createdCategoryIds
                                     ELSE bt.deletable,
                       !.upc = CASE bt.upc = "uDelete" -> AfterDelete(bt)
                                 [] bt.upc = "uReadBal" -> AfterBalance(bt)
                                 [] bt.upc = "uWriteBal" -> AfterBalance(bt)
                                 [] bt.upc = "uCatUse" -> "uDelCats"
                                 [] OTHER -> "done"])]
    /\ UNCHANGED <<today, transactions, accounts, categories, nextId, pc, result, input, delToasts, addDlg, loc,
                   report, hist>>

-----------------------------------------------------------------------------
(* Specifications *)

Files == WechatFiles \cup BocFiles

\* no undo handler is between two requests
Settled == \A b \in 1..Len(batches) : batches[b].upc \in {"avail", "done"}

\* nothing but the undo handler of batch b may be between two requests
SettledBut(b) ==
    /\ \A p \in Procs : pc[p] = "idle"
    /\ \A c \in 1..Len(batches) : c # b => batches[c].upc \in {"avail", "done"}

\* One dialog, any file, any initial ledger; the user lets one handler finish
\* before starting the next one.
Next ==
    \/ \E f \in Files : onFileChange(1, f)
    \/ Settled /\ onImport(1)
    \/ StepAccounts(1)
    \/ StepCats(1)
    \/ StepInsCats(1)
    \/ StepCatSel(1)
    \/ StepCatIns(1)
    \/ StepByHash(1)
    \/ StepByFields(1)
    \/ StepInsert(1)
    \/ StepReadBal(1)
    \/ StepWriteBal(1)
    \/ StoreError(1)
    \/ \E b \in 1..MaxRuns : SettledBut(b) /\ UndoClick(b)
    \/ \E b \in 1..MaxRuns : UndoDelete(b)
    \/ \E b \in 1..MaxRuns : UndoReadBal(b)
    \/ \E b \in 1..MaxRuns : UndoWriteBal(b)
    \/ \E b \in 1..MaxRuns : UndoCatUse(b)
    \/ \E b \in 1..MaxRuns : UndoDelCats(b)
    \/ \E b \in 1..MaxRuns : UndoStoreError(b)
    \/ Tick

Spec == Init /\ [][Next]_vars

\* Two dialogs of the owner open at once (two tabs), each importing a file of
\* its own choice into the same ledger; their requests interleave freely.
ConcFiles ==
    { [provider |-> "wechat", records |-> << SalaryRec, LunchRec >>],
      [provider |-> "wechat", records |-> << SalaryRec >>],
      [provider |-> "wechat", records |-> << LunchRec >>],
      [provider |-> "boc", records |-> << BocLunchRec >>] }

InitConc ==
    /\ today = 1
    /\ transactions = {}
    /\ accounts = InitAccounts
    /\ categories = {FoodCat, SalaryCat, OtherCat}
    /\ nextId = 10
    /\ pc = [p \in Procs |-> "idle"]
    /\ result = [p \in Procs |-> NoResult]
    /\ loc = [p \in Procs |-> IdleLoc]
    /\ batches = <<>>
    /\ report = [p \in Procs |-> NoToast]
    /\ hist = [p \in Procs |-> <<>>]
    /\ input = [p \in Procs |-> NoInput]
    /\ delToasts = <<>>
    /\ addDlg = [p \in Procs |-> <<>>]

NextConc ==
    \E p \in Procs :
        \/ \E f \in ConcFiles : onFileChange(p, f)
        \/ onImport(p)
        \/ StepAccounts(p)
        \/ StepCats(p)
        \/ StepCatSel(p)
        \/ StepByHash(p)
        \/ StepByFields(p)
        \/ StepInsert(p)
        \/ StepReadBal(p)
        \/ StepWriteBal(p)
        \/ StoreError(p)

SpecConc == InitConc /\ [][NextConc]_vars

\* One Bank of China dialog, any PDF of the pool below, any password typed
\* before the file is picked, or one China Merchants Bank dialog; the file is
\* parsed, nothing is imported.
MaxGlyphs == 3      \* text items of a PDF below its header line

HeaderLines ==
    { << Glyph(100, 700, Label("txnDate")), Glyph(220, 700, Label("debitAmt")),
         Glyph(300, 700, Label("balance")) >>,
      << Glyph(100, 700, Label("date")), Glyph(220, 700, Label("spend")),
         Glyph(300, 700, Label("balance")) >>,
      << Glyph(220, 700, Label("debitAmt")), Glyph(300, 700, Label("balance")) >>,
      << >> }

BodyPool ==
    << Glyph(100, 500, DateText(1)), Glyph(218, 500, NumText(50)),
       Glyph(298, 498, NumText(1050)), Glyph(260, 500, NumText(50)),
       Glyph(296, 503, Word("x")), Glyph(100, 480, DateText(1)),
       Glyph(230, 480, NumText(50)), Glyph(150, 480, Word("")),
       Glyph(100, 494, DateText(2)), Glyph(220, 497, NumText(50)),
       GlyphOn(2, 100, 500, DateText(2)), GlyphOn(2, 220, 500, NumText(70)),
       Glyph(40, 520, DateText(1)) >>

\* the items of the pool at the positions in S, in page order
RECURSIVE PoolItems(_, _)
PoolItems(S, i) ==
    IF i > Len(BodyPool) THEN <<>>
    ELSE (IF i \in S THEN << BodyPool[i] >> ELSE <<>>) \o PoolItems(S, i + 1)

Bodies ==
    { PoolItems(S, 1) : S \in { T \in SUBSET (1..Len(BodyPool)) : Cardinality(T) <= MaxGlyphs } }

PdfDocs ==
    { PdfFile("", h \o b) : h \in HeaderLines, b \in Bodies }
    \cup { PdfFile("k1", h \o PoolItems({1, 2, 3}, 1)) : h \in HeaderLines }

CmbHeaderLines ==
    { << Glyph(100, 700, Label("bookDate")), Glyph(220, 700, Label("txnAmt")),
         Glyph(300, 700, Label("onlineBal")) >>,
      << Glyph(220, 700, Label("txnAmt")), Glyph(300, 700, Label("onlineBal")) >>,
      << >> }

CmbDocs == { CmbFile(h \o b) : h \in CmbHeaderLines, b \in Bodies }

Passwords == {"", "k1", "k2"}

NextPdf ==
    \/ \E f \in PdfDocs, pw \in Passwords :
           input[1].file = NoFile /\ onFileChangeStart(1, f, pw)
    \/ \E f \in CmbDocs : input[1].file = NoFile /\ onFileChangeStart(1, f, "")
    \/ onFileChangeEnd(1)

SpecPdf == InitConc /\ [][NextPdf]_vars


\* One dialog whose user picks files that parse and files that do not, and
\* imports what the dialog holds.  A parse that is under way ends while no
\* import is running: a running onImport works on the result it was started
\* with, whatever setResult does meanwhile.
DlgFiles ==
    { CsvFile(TRUE, << LunchRec >>),
      CsvFile(TRUE, << >>),
      CsvFile(FALSE, << LunchRec >>),
      PdfFile("k1", << Glyph(100, 700, Label("txnDate")), Glyph(220, 700, Label("debitAmt")),
                       Glyph(300, 700, Label("balance")) >> \o PoolItems({1, 2, 3}, 1)),
      PdfFile("", PoolItems({1, 2, 3}, 1)) }

NextDlg ==
    \/ \E f \in DlgFiles, pw \in {"", "k1"} : pc[1] = "idle" /\ onFileChangeStart(1, f, pw)
    \/ pc[1] = "idle" /\ onFileChangeEnd(1)
    \/ onImport(1)
    \/ StepAccounts(1)
    \/ StepCats(1)
    \/ StepCatSel(1)
    \/ StepByHash(1)
    \/ StepByFields(1)
    \/ StepInsert(1)
    \/ StepReadBal(1)
    \/ StepWriteBal(1)
    \/ StoreError(1)

SpecDlg == InitConc /\ [][NextDlg]_vars

\* EditTransactionDialog.handleUpdate: update({ amount, type, ..., category_id })
\* .eq('id', id).eq('user_id', user.id); no balance is touched
handleUpdate(id, amount, categoryId) ==
    /\ \E r \in transactions : r.id = id /\ r.user_id = Owner /\ ~r.is_deleted
    /\ transactions' =
           { IF r.id = id /\ r.user_id = Owner
             THEN [r EXCEPT !.amount = amount,
                            !.type = IF amount < 0 THEN "expense" ELSE "income",
                            !.category_id = categoryId]
             ELSE r : r \in transactions }
    /\ UNCHANGED <<today, accounts, categories, nextId, pc, result, input, delToasts, addDlg, loc, batches,
                   report, hist>>

\* EditTransactionDialog.handleDelete: update({ is_deleted: true }), then the
\* balance of the row's account is rolled back by the row's amount, then the
\* toast 交易记录已删除 with its undo button; the requests of the handler follow
\* each other with no other handler in between
handleDelete(id) ==
    /\ \E r \in transactions : r.id = id /\ r.user_id = Owner /\ ~r.is_deleted
    /\ LET row == CHOOSE r \in transactions : r.id = id
           deltaBal == IF row.type = "income" THEN 0 - Abs(row.amount) ELSE Abs(row.amount)
       IN /\ transactions' = { IF r.id = id THEN [r EXCEPT !.is_deleted = TRUE] ELSE r :
                                  r \in transactions }
          /\ accounts' = IF deltaBal # 0
                         THEN WriteBalance(accounts, row.account_id,
                                           BalanceOf(accounts, row.account_id) + deltaBal)
                         ELSE accounts
          /\ delToasts' = Append(delToasts, [backupRow |-> row, undoValid |-> TRUE, clicks |-> 0])
    /\ UNCHANGED <<today, categories, nextId, pc, result, input, addDlg, loc, batches, report,
                   hist>>

\* onClick of the undo button of a 交易记录已删除 toast: `if (!undoValid) return`,
\* update({ is_deleted: false }) (`if (undoErr) throw undoErr`: the unique index
\* may refuse the row), then the balance of the row's account is moved back
undoDeleteClick(k) ==
    /\ k \in 1..Len(delToasts)
    /\ delToasts[k].clicks < MaxClicks
    /\ LET row == delToasts[k].backupRow
           deltaBal == IF row.type = "income" THEN Abs(row.amount) ELSE 0 - Abs(row.amount)
           restored == { IF r.id = row.id /\ r.user_id = Owner
                         THEN [r EXCEPT !.is_deleted = FALSE] ELSE r : r \in transactions }
       IN /\ delToasts' = [delToasts EXCEPT ![k].clicks = @ + 1]
          /\ IF ~delToasts[k].undoValid \/ ~UniqueHashOk(restored)
             THEN UNCHANGED <<transactions, accounts>>
             ELSE /\ transactions' = restored
                  /\ accounts' = IF deltaBal # 0
                                 THEN WriteBalance(accounts, row.account_id,
                                                   BalanceOf(accounts, row.account_id) + deltaBal)
                                 ELSE accounts
    /\ UNCHANGED <<today, categories, nextId, pc, result, input, addDlg, loc, batches, report,
                   hist>>

\* setTimeout(() => { undoValid = false; }, 5000)
undoWindowEnds(k) ==
    /\ k \in 1..Len(delToasts)
    /\ delToasts[k].undoValid
    /\ delToasts' = [delToasts EXCEPT ![k].undoValid = FALSE]
    /\ UNCHANGED <<today, transactions, accounts, categories, nextId, pc, result, input, addDlg,
                   loc, batches, report, hist>>

\* TransactionList.handleDelete, the onDelete of a swiped item:
\* delete().eq('id', t.id), then toast.success
listHandleDelete(id) ==
    /\ \E r \in transactions : r.id = id /\ r.user_id = Owner /\ ~r.is_deleted
    /\ transactions' = { r \in transactions : r.id # id }
    /\ UNCHANGED <<today, accounts, categories, nextId, pc, result, input, delToasts, addDlg,
                   loc, batches, report, hist>>

\* AddTransactionDialog, the effect on `open`: supabase.from('accounts').select('*'),
\* setAccounts(accs)
loadAccounts(p) ==
    /\ addDlg[p] = <<>>
    /\ addDlg' = [addDlg EXCEPT ![p] = OwnAccounts(accounts, Owner)]
    /\ UNCHANGED <<today, transactions, accounts, categories, nextId, pc, result, input,
                   delToasts, loc, batches, report, hist>>

\* AddTransactionDialog.handleSubmit for an income or an expense: the row is
\* inserted with the amount typed, then the balance is written from
\* accounts.find(a => a.id === selectedAccount) of the dialog's state; the
\* dialog closes
handleSubmit(p, selectedAccount, type, computed, selectedCategory) ==
    /\ addDlg[p] # <<>>
    /\ \E i \in 1..Len(addDlg[p]) : addDlg[p][i].id = selectedAccount
    /\ LET account == addDlg[p][AccIndex(addDlg[p], selectedAccount)]
           balanceChange == IF type = "income" THEN computed ELSE 0 - computed
       IN /\ transactions' = transactions \cup
                 { Row(nextId, Owner, selectedAccount, selectedCategory, computed, type, today,
                       "", NullHash, FALSE) }
          /\ accounts' = WriteBalance(accounts, selectedAccount, account.balance + balanceChange)
    /\ nextId' = nextId + 1
    /\ addDlg' = [addDlg EXCEPT ![p] = <<>>]
    /\ UNCHANGED <<today, categories, pc, result, input, delToasts, loc, batches, report, hist>>

\* One dialog imports one file; then the user edits and deletes rows of the
\* ledger in EditTransactionDialog, and presses the undo button of the import
\* at some point.  No two handlers run at the same time.
EditFiles ==
    { [provider |-> "wechat", records |-> << SalaryRec, LunchRec >>],
      [provider |-> "boc", records |-> << BocLunchRec >>] }

EditAmounts == {0 - 20, 30}

NextEdit ==
    \/ \E f \in EditFiles : onFileChange(1, f)
    \/ hist[1] = <<>> /\ onImport(1)
    \/ StepAccounts(1)
    \/ StepCats(1)
    \/ StepInsCats(1)
    \/ StepCatSel(1)
    \/ StepCatIns(1)
    \/ StepByHash(1)
    \/ StepByFields(1)
    \/ StepInsert(1)
    \/ StepReadBal(1)
    \/ StepWriteBal(1)
    \/ \E r \in transactions, v \in EditAmounts, c \in categories :
           batches # <<>> /\ SettledBut(0) /\ c.user_id = Owner /\ handleUpdate(r.id, v, c.id)
    \/ \E r \in transactions : batches # <<>> /\ SettledBut(0) /\ handleDelete(r.id)
    \/ SettledBut(1) /\ UndoClick(1)
    \/ UndoDelete(1)
    \/ UndoReadBal(1)
    \/ UndoWriteBal(1)
    \/ UndoCatUse(1)
    \/ UndoDelCats(1)
    \/ UndoStoreError(1)

SpecEdit == Init /\ [][NextEdit]_vars

\* Two dialogs as in SpecConc, over a ledger that holds a row from before
\* fingerprints existed or a row of another owner; one of the files has a
\* record without a time, whose fingerprint differs from the one of the same
\* purchase exported with its time.
DedupFiles ==
    { [provider |-> "wechat", records |-> << LunchRec >>],
      [provider |-> "wechat", records |-> << SalaryRec, WechatRec(NoTimeCell, "out", Num(50), "lunch", "o2") >>],
      [provider |-> "boc", records |-> << BocLunchRec >>] }

InitDedup ==
    /\ today = 1
    /\ transactions \in SUBSET { r \in OldRows : r.id \in {2, 3} }
    /\ accounts = InitAccounts
    /\ categories = {FoodCat, SalaryCat, OtherCat}
    /\ nextId = 10
    /\ pc = [p \in Procs |-> "idle"]
    /\ result = [p \in Procs |-> NoResult]
    /\ loc = [p \in Procs |-> IdleLoc]
    /\ batches = <<>>
    /\ report = [p \in Procs |-> NoToast]
    /\ hist = [p \in Procs |-> <<>>]
    /\ input = [p \in Procs |-> NoInput]
    /\ delToasts = <<>>
    /\ addDlg = [p \in Procs |-> <<>>]

NextDedup ==
    \E p \in Procs :
        \/ \E f \in DedupFiles : onFileChange(p, f)
        \/ hist[p] = <<>> /\ onImport(p)
        \/ StepAccounts(p)
        \/ StepCats(p)
        \/ StepCatSel(p)
        \/ StepByHash(p)
        \/ StepByFields(p)
        \/ StepInsert(p)
        \/ StepReadBal(p)
        \/ StepWriteBal(p)

SpecDedup == InitDedup /\ [][NextDedup]_vars

\* One Alipay dialog and any CSV: the buffer of a file that is not empty
\* decodes to some text that is not empty under every encoding the browser
\* knows, an empty buffer to ""; utf-8 is known to every browser.
Texts == {"export", "named", "timed", "garbled"}

AlipayFiles ==
    { AlipayFile(d, << LunchRec >>) :
        d \in { e \in [{"gb18030", "gbk", "gb2312", "utf-8"} -> Texts \cup {"null", ""}] :
                  /\ e["utf-8"] # "null"
                  /\ \A a \in DOMAIN e : e[a] = "" => \A b \in DOMAIN e : e[b] \in {"", "null"} } }

NextCsv ==
    \/ \E f \in AlipayFiles : input[1].file = NoFile /\ onFileChangeStart(1, f, "")
    \/ onFileChangeEnd(1)

SpecCsv == InitConc /\ [][NextCsv]_vars


\* The list page of the owner in two tabs: rows are deleted in
\* EditTransactionDialog and by swiping, a deletion is undone from its toast,
\* rows are added in AddTransactionDialog.  No import runs.
MaxDeletes == 1     \* deletions in EditTransactionDialog
MaxAdds == 2        \* rows added in AddTransactionDialog

AddAmounts == {30}

NextLedger ==
    \/ \E r \in transactions : Len(delToasts) < MaxDeletes /\ handleDelete(r.id)
    \/ \E k \in 1..MaxDeletes : undoDeleteClick(k)
    \/ \E k \in 1..MaxDeletes : undoWindowEnds(k)
    \/ \E r \in transactions : listHandleDelete(r.id)
    \/ \E p \in Procs : loadAccounts(p)
    \/ \E p \in Procs, a \in {2}, type \in {"income", "expense"}, v \in AddAmounts :
           nextId < 10 + MaxAdds /\ handleSubmit(p, a, type, v, FoodCat.id)

SpecLedger == Init /\ [][NextLedger]_vars

-----------------------------------------------------------------------------
(* Properties *)

Runs(p) == 1..Len(hist[p])

\* a run that ended without a request error
Clean(o) == o.title # "failed"

\* the rows some import put into the ledger
Imported == transactions \ OldRows

\* C1: running the import of one file twice in sequence, with nothing else in
\* between, commits no row on the second run and leaves the balance of the
\* target account as the first run left it.
C1_SecondRunCommitsNothing ==
    \A p \in Procs :
        (/\ Len(hist[p]) >= 2
         /\ Clean(hist[p][1]) /\ Clean(hist[p][2])
         /\ hist[p][2].quiet)
        => /\ hist[p][2].committed = 0
           /\ hist[p][2].balAfter = hist[p][1].balAfter

\* the same with both runs on the first calendar day
SecondRunSameDayCommitsNothing ==
    \A p \in Procs :
        (/\ Len(hist[p]) >= 2
         /\ Clean(hist[p][1]) /\ Clean(hist[p][2])
         /\ hist[p][2].quiet
         /\ today = 1)
        => /\ hist[p][2].committed = 0
           /\ hist[p][2].balAfter = hist[p][1].balAfter

\* C2: after a successful import with no other writer of the account, the
\* balance is the balance before the import plus the sum of the signed amounts
\* of the committed rows, and the import wrote the balance once (not at all
\* when the sum is 0).
C2_BalanceIsOldPlusSum ==
    \A p \in Procs : \A i \in Runs(p) :
        LET o == hist[p][i]
        IN (o.title = "success" /\ o.balWrites = o.ownWrites)
           => /\ o.balAfter = o.balBefore + o.sum
              /\ o.ownWrites = (IF o.sum # 0 THEN 1 ELSE 0)

C2_Witness ==
    \E p \in Procs : \E i \in Runs(p) :
        /\ hist[p][i].title = "success"
        /\ hist[p][i].committed = 2
        /\ hist[p][i].sum = 50
        /\ hist[p][i].ownWrites = 1
        /\ hist[p][i].balWrites = 1

\* the undo of batch b ran to its end without a failing request, and since the
\* import of b nothing else was started
UndoneAlone(b) ==
    LET bt == batches[b]
    IN /\ bt.undone /\ bt.upc = "done" /\ bt.faults = 0
       /\ Len(hist[bt.p]) = bt.run
       /\ \A p \in Procs : pc[p] = "idle"
       /\ \A c \in 1..Len(batches) : c # b => ~batches[c].undone
       /\ hist[bt.p][bt.run].balWrites = hist[bt.p][bt.run].ownWrites

C4_SecondUndoNoEffect ==
    [][\A b \in 1..Len(batches) :
          (/\ batches[b].undone
           /\ Len(batches') >= b
           /\ batches'[b].clicks > batches[b].clicks)
          => /\ transactions' = transactions
             /\ accounts' = accounts
             /\ categories' = categories
             /\ batches'[b] = [batches[b] EXCEPT !.clicks = @ + 1]]_vars

C4_Witness ==
    \E b \in 1..Len(batches) :
        /\ batches[b].undone
        /\ batches[b].clicks >= 2
        /\ batches[b].upc = "done"
        /\ batches[b].delta # 0
        /\ \A r \in transactions : r.id \notin batches[b].insertedIds

\* the legacy-generation fingerprint of record k of the file of session p
LegacyOf(p, k) ==
    IF result[p].provider = "wechat"
    THEN wechatLegacyFp(result[p].records[k], today)
    ELSE bocLegacyFp(result[p].records[k])

\* the current-generation fingerprint of record k of the file of session p
CurrentOf(p, k) ==
    IF result[p].provider = "wechat"
    THEN wechatFingerprint(result[p].records[k], today)
    ELSE bocFingerprint(result[p].records[k])

\* C5: when the ledger held, before the import, a row of the owner stored under
\* the legacy fingerprint of a record of the file, the import does not commit
\* that record again.
C5_LegacyRowIsDuplicate ==
    \A p \in Procs : \A k \in 1..Len(result[p].records) :
        (\E old \in transactions \cap OldRows :
            /\ old.user_id = Owner
            /\ ~old.is_deleted
            /\ old.unique_hash = LegacyOf(p, k))
        => ~\E r \in Imported :
              /\ r.unique_hash = CurrentOf(p, k)
              /\ r.description = result[p].records[k].desc

\* C6: an insert the store rejects for its unique index does not end the
\* import in the failure toast: the import treats the records as present.
C6_ViolationNotFatal ==
    \A p \in Procs : \A i \in Runs(p) :
        hist[p][i].violation => hist[p][i].title # "failed"

\* C7: under any interleaving of two imports of the owner, the ledger never
\* holds two rows that are not deleted and carry the same fingerprint for the
\* same user (NULL is no fingerprint).
C7_ActiveFingerprintsUnique ==
    \A r1 \in transactions : \A r2 \in transactions :
        (/\ r1.id # r2.id
         /\ r1.user_id = r2.user_id
         /\ ~r1.is_deleted /\ ~r2.is_deleted
         /\ r1.unique_hash # NullHash)
        => r1.unique_hash # r2.unique_hash

\* both dialogs imported the same file; one committed, the other was stopped
\* by the index
C7_Witness ==
    \E p \in Procs : \E q \in Procs :
        /\ p # q
        /\ result[p] = result[q]
        /\ hist[p] # <<>> /\ hist[q] # <<>>
        /\ hist[p][1].title = "success"
        /\ hist[q][1].violation

\* a record of a WeChat file whose 收/支 cell is neither income nor expense
Neutral(rec) == rec.inout \notin {"in", "out"}

\* row r is what some record of a WeChat file with a direction would give
FromDirectedRecord(r) ==
    \E p \in Procs : \E k \in 1..Len(result[p].records) :
        LET rec == result[p].records[k]
        IN /\ result[p].provider = "wechat"
           /\ ~Neutral(rec)
           /\ r.description = rec.desc
           /\ r.amount = (IF rec.inout = "in" THEN rec.amount.v ELSE 0 - rec.amount.v)
           /\ r.type = (IF rec.inout = "in" THEN "income" ELSE "expense")

\* C8: a record that is neither income nor expense is never inserted, and the
\* balance moves by the sum of the inserted rows only.
C8_NeutralNeverCommitted ==
    /\ \A r \in Imported :
          r.unique_hash.gen = "cur" => FromDirectedRecord(r)
    /\ \A p \in Procs : \A i \in Runs(p) :
          (result[p].provider = "wechat" /\ hist[p][i].balWrites = hist[p][i].ownWrites)
          => hist[p][i].balAfter - hist[p][i].balBefore \in {0, hist[p][i].sum}

C8_Witness ==
    \E p \in Procs :
        /\ result[p].provider = "wechat"
        /\ Len(result[p].records) = 2
        /\ Neutral(result[p].records[1])
        /\ ~Neutral(result[p].records[2])
        /\ hist[p] # <<>>
        /\ hist[p][1].title = "success"
        /\ hist[p][1].committed = 1

\* C9: the report of a finished import states how many rows it skipped as
\* neutral, whenever the file held such a row.
C9_ReportStatesSkipped ==
    \A p \in Procs :
        (/\ report[p].title # "none"
         /\ report[p].title # "failed"
         /\ result[p].provider = "wechat"
         /\ \E k \in 1..Len(result[p].records) : Neutral(result[p].records[k]))
        => "skipped" \in report[p].stated

\* record k of the file of session p gets past the drops of the record loop
Eligible(p, k) ==
    IF result[p].provider = "wechat"
    THEN ~Neutral(result[p].records[k])
    ELSE bocAmt(result[p].records[k]) # 0

\* the first eligible record of the file that has fingerprint h
FirstWith(p, h) ==
    CHOOSE k \in 1..Len(result[p].records) :
        /\ Eligible(p, k) /\ CurrentOf(p, k) = h
        /\ \A j \in 1..(k - 1) : ~(Eligible(p, j) /\ CurrentOf(p, j) = h)

Batched(p) == pc[p] \in {"byHash", "byFields", "insert", "readBal", "writeBal"}

\* C10: of the records of one file with the same fingerprint the first one in
\* file order is kept; the rows of the batch, and the rows sent to the store,
\* never hold one unique_hash twice.
C10_FirstOccurrenceWins ==
    \A p \in Procs :
        Batched(p)
        => LET t == loc[p].toInsert
               n == loc[p].newRows
           IN /\ \A i \in 1..Len(t) : \A j \in 1..Len(t) :
                    i # j => t[i].unique_hash # t[j].unique_hash
              /\ \A i \in 1..Len(n) : \A j \in 1..Len(n) :
                    i # j => n[i].unique_hash # n[j].unique_hash
              /\ \A i \in 1..Len(t) :
                    /\ \E k \in 1..Len(result[p].records) :
                          Eligible(p, k) /\ CurrentOf(p, k) = t[i].unique_hash
                    /\ t[i].description =
                          result[p].records[FirstWith(p, t[i].unique_hash)].desc

C10_Witness ==
    \E p \in Procs :
        /\ pc[p] = "insert"
        /\ Len(result[p].records) = 2
        /\ Eligible(p, 1) /\ Eligible(p, 2)
        /\ result[p].records[1].desc # result[p].records[2].desc
        /\ CurrentOf(p, 1) = CurrentOf(p, 2)
        /\ Len(loc[p].newRows) = 1
        /\ loc[p].newRows[1].description = result[p].records[1].desc

\* the columns of the table of the PDF a dialog has parsed, with their x
ColsOfInput(p) == colsOf(ptsOf(input[p].file.glyphs))

\* the dialog shows the outcome of parsing the PDF in its file input
PdfSettled(p) == input[p].file.kind = "pdf" /\ ~input[p].loading

\* C15: the PDF reconstruction puts every text item of a table row into the
\* column whose header x is nearest to the item's x: no other column's header
\* is strictly nearer.
C15_GlyphGoesToNearestColumn ==
    \A p \in Procs :
        PdfSettled(p) /\ result[p] # NoResult =>
            LET cols == ColsOfInput(p)
                rows == result[p].rows
            IN \A r \in 1..Len(rows) : \A c \in 1..Len(cols) : \A k \in 1..Len(rows[r][c]) :
                   \A j \in 1..Len(cols) :
                       Abs(rows[r][c][k].x - cols[c].x) <= Abs(rows[r][c][k].x - cols[j].x)

\* an item at x = 298 between the columns at 220 and 300 sits in the column at 300
C15_Witness ==
    /\ PdfSettled(1) /\ result[1] # NoResult
    /\ \E c \in 1..Len(ColsOfInput(1)) :
           /\ ColsOfInput(1)[c].x = 300
           /\ \E j \in 1..Len(ColsOfInput(1)) : ColsOfInput(1)[j].x = 220
           /\ \E r \in 1..Len(result[1].rows) : \E k \in 1..Len(result[1].rows[r][c]) :
                  result[1].rows[r][c][k].x = 298

\* the password typed does not open the encrypted PDF in the file input
WrongPassword(p) ==
    PdfSettled(p) /\ input[p].file.key # "" /\ input[p].password # input[p].file.key

\* C16: parsing an encrypted PDF with a wrong or missing password fails with
\* the password error, never with the header-not-found error, and leaves the
\* dialog without a parsed result.
C16_WrongPasswordIsPasswordError ==
    \A p \in Procs :
        WrongPassword(p) =>
            /\ result[p] = NoResult
            /\ report[p] = ParseFailedToast("PasswordException")

\* a wrong password and a missing one, on a PDF whose text has no date header
C16_Witness ==
    /\ WrongPassword(1)
    /\ pick(ptsOf(input[1].file.glyphs), DateLabels, 1) = NoCol
    /\ input[1].password \in {"", "k2"}
    /\ report[1].title = "parseFailed"

\* the file in the file input is one whose parsing failed
LastParseFailed(p) ==
    /\ input[p].file # NoFile
    /\ ~input[p].loading
    /\ ~parseFile(input[p].file, input[p].password).ok

\* the file in the file input is one whose parsing fails
Unparsable(p) ==
    input[p].file # NoFile /\ ~parseFile(input[p].file, input[p].password).ok

ParsedPhase(p) == result[p] # NoResult /\ ~input[p].loading

\* C19: an import (the Committing phase) is entered only from the Parsed
\* phase: the dialog holds a parsed result and no parse is under way.
C19_CommittingOnlyFromParsed ==
    [][\A p \in Procs : pc[p] = "idle" /\ pc'[p] # "idle" => ParsedPhase(p)]_vars

\* C12: when the insert of a later chunk fails, the rows of the chunks before
\* it stay committed and the failure shown to the user states how many chunks
\* were committed.
C12_FailureStatesCommittedChunks ==
    \A p \in Procs :
        /\ hist[p] # <<>>
        /\ hist[p][Len(hist[p])].title = "failed"
        /\ hist[p][Len(hist[p])].committed > 0
        /\ report[p].title = "failed"
        => "chunks" \in report[p].stated

\* C13: every row an import commits has a signed amount other than zero.
C13_NoZeroAmountCommitted ==
    \A r \in Imported : r.amount # 0

\* C14: the current-generation fingerprint of a record is the same whenever it
\* is computed: a row committed for a record of the loaded file carries the
\* fingerprint that record has now.
C14_FingerprintSameWheneverComputed ==
    \A p \in Procs : \A k \in 1..Len(result[p].records) :
        result[p].provider = "wechat" =>
            \A r \in Imported :
                (\E d \in 1..MaxDay :
                     r.unique_hash = wechatFingerprint(result[p].records[k], d))
                => r.unique_hash = wechatFingerprint(result[p].records[k], today)

\* the batches committed into account a
BatchesInto(a) == { b \in 1..Len(batches) : batches[b].accountId = a }

\* the sum of the amounts of the rows the batches in S hold in the ledger
RowsSum(S) == SumAmounts({ r \in transactions : \E b \in S : r.id \in batches[b].insertedIds })

\* C17: when two imports into one account run at the same time, the balance
\* ends as the old balance plus the deltas of some of the committed batches,
\* the last writer's among them; in some interleaving it is the old balance
\* plus only one of the two deltas although the rows of both are committed.
C17_BalanceIsOldPlusSomeDeltas ==
    (\A p \in Procs : pc[p] = "idle") =>
        \A a \in { batches[b].accountId : b \in 1..Len(batches) } :
            \E S \in SUBSET BatchesInto(a) :
                /\ S # {}
                /\ BalanceOf(accounts, a) = BalanceOf(InitAccounts, a) + RowsSum(S)

\* both batches are committed, one delta is missing from the balance
C17_Witness ==
    /\ \A p \in Procs : pc[p] = "idle"
    /\ \E b1, b2 \in 1..Len(batches) :
           /\ batches[b1].p # batches[b2].p
           /\ batches[b1].accountId = batches[b2].accountId
           /\ RowsSum({b1}) # 0 /\ RowsSum({b2}) # 0
           /\ \A i \in batches[b1].insertedIds \cup batches[b2].insertedIds :
                  \E r \in transactions : r.id = i
           /\ BatchesInto(batches[b1].accountId) = {b1, b2}
           /\ BalanceOf(accounts, batches[b1].accountId)
                  = BalanceOf(InitAccounts, batches[b1].accountId) + RowsSum({b1})

\* the undo handler of batch b, none of whose requests has failed, gets the
\* answer of the request it waited on at upc
UndoAnswered(b, upc) ==
    /\ b \in 1..Len(batches)
    /\ batches[b].upc = upc
    /\ batches'[b].upc # upc
    /\ batches'[b].faults = 0

CleanupEnds(b) ==
    /\ b \in 1..Len(batches)
    /\ batches[b].upc \in {"uCatUse", "uDelCats"}
    /\ batches'[b].upc = "done"
    /\ batches'[b].faults = 0

OwnerFieldMatch(r, txs) ==
    \E x \in txs :
        /\ x.user_id = Owner
        /\ x.date = r.date
        /\ Abs(x.amount) = Abs(r.amount)
        /\ x.description = r.description

\* the field query of session p is answered and the batch is filtered
FieldsAnswered(p) ==
    /\ pc[p] = "byFields"
    /\ pc'[p] = "insert" \/ (pc'[p] = "idle" /\ report'[p].title = "noNew")

BodyItems(p) ==
    LET pts == ptsOf(input[p].file.glyphs)
        cols == ColsOfInput(p)
    IN { i \in 1..Len(pts) : \A c \in 1..Len(cols) : pts[i].text # Label(cols[c].label) }

\* C22: in the row reconstruction of a parsed PDF, any two text items of a
\* page that are no header labels and whose y differ by at most the tolerance
\* are put into the same row, in whatever order the items are read.
C22_ItemsWithinToleranceShareRow ==
    \A p \in Procs :
        (PdfSettled(p) /\ result[p] # NoResult) =>
            LET pts == ptsOf(input[p].file.glyphs)
                groups == groupByY(pts, ColsOfInput(p), 1, <<>>)
            IN \A i \in BodyItems(p) : \A j \in BodyItems(p) :
                   (pts[i].page = pts[j].page /\ Abs(pts[i].y - pts[j].y) <= tolY)
                   => \E g \in 1..Len(groups) :
                          /\ \E k \in 1..Len(groups[g].ps) : groups[g].ps[k] = pts[i]
                          /\ \E k \in 1..Len(groups[g].ps) : groups[g].ps[k] = pts[j]


\* the dialog shows the rows of the PDF in its file input
RowsShown(p) ==
    input[p].file.kind \in {"pdf", "cmb"} /\ ~input[p].loading /\ result[p] # NoResult

\* the x of the columns the parser of dialog p works with
ColXsOfInput(p) ==
    IF input[p].file.kind = "cmb"
    THEN cmbColOrder(ptsOf(SelectSeq(input[p].file.glyphs, LAMBDA g : g.page = 1)))
    ELSE [c \in 1..Len(ColsOfInput(p)) |-> ColsOfInput(p)[c].x]

\* the date items of the document that stand in the date column, one per data row
DataRowItems(p) ==
    { input[p].file.glyphs[i] :
        i \in { j \in 1..Len(input[p].file.glyphs) :
                  /\ input[p].file.glyphs[j].text.k = "date"
                  /\ nearestColumn(ColXsOfInput(p), input[p].file.glyphs[j].x) = 1 } }

\* C23: the rows a PDF parser returns are in reading order (the rows of a page
\* before the rows of the next page, within a page by descending y) and every
\* data row of every page is there exactly once, as a row of its own.
C23_RowsInReadingOrder ==
    \A p \in Procs :
        RowsShown(p) =>
            LET rows == result[p].rows
            IN /\ \A r1 \in 1..Len(rows) : \A r2 \in 1..Len(rows) :
                      r1 < r2 =>
                          \/ rows[r1][1][1].page < rows[r2][1][1].page
                          \/ /\ rows[r1][1][1].page = rows[r2][1][1].page
                             /\ rows[r1][1][1].y >= rows[r2][1][1].y
               /\ \A g \in DataRowItems(p) :
                      /\ \E r \in 1..Len(rows) : rows[r][1] = << g >>
                      /\ \A r1 \in 1..Len(rows) : \A r2 \in 1..Len(rows) :
                             (rows[r1][1] = << g >> /\ rows[r2][1] = << g >>) => r1 = r2


\* the PDF in the file input of dialog p was opened and parsed, and none of its
\* text items is a label of the date column of its parser
NoDateHeader(p) ==
    LET f == input[p].file
    IN /\ ~input[p].loading
       /\ \/ /\ f.kind = "pdf" /\ getDocument(f, input[p].password)
             /\ pick(ptsOf(f.glyphs), DateLabels, 1) = NoCol
          \/ /\ f.kind = "cmb" /\ getDocument(f, "")
             /\ findText(ptsOf(f.glyphs), CmbHeader[1], 1) = 0

\* C24: parsing a PDF none of whose text items is a date-column header fails
\* with the header-not-found error and gives the dialog no rows, for the Bank
\* of China parser and for the China Merchants Bank parser.
C24_NoDateHeaderIsHeaderError ==
    \A p \in Procs :
        NoDateHeader(p) =>
            /\ result[p] = NoResult
            /\ report[p] = ParseFailedToast("headerNotFound")


\* the text holds one of the anchors the decoder looks for
Anchored(text) ==
    text \notin {"null", ""} /\ (includes(text, "alipay") \/ includes(text, "txnTime"))

\* the candidates, by position, whose decoding of the file holds an anchor
AnchoredCandidates(file) ==
    { i \in 1..Len(candidates) : Anchored(file.decodes[candidates[i]]) }

\* the dialog shows the outcome of parsing the CSV in its file input
CsvSettled(p) == input[p].file.kind = "alipay" /\ ~input[p].loading

\* C25: the decoder takes the text of the first candidate, in the order
\* gb18030, gbk, gb2312, utf-8, whose decoding holds an anchor (the file is then
\* parsed from that text), and the parse fails with the decode error when the
\* decoding of no candidate holds an anchor.
C25_FirstAnchoredCandidateOrDecodeError ==
    \A p \in Procs :
        CsvSettled(p) =>
            LET hits == AnchoredCandidates(input[p].file)
                first == CHOOSE i \in hits : \A j \in hits : i <= j
                text == input[p].file.decodes[candidates[first]]
            IN IF hits # {}
               THEN IF text = "export"
                    THEN result[p] # NoResult /\ result[p].text = text
                    ELSE result[p] = NoResult /\ report[p] = ParseFailedToast("headerNotFound")
               ELSE result[p] = NoResult /\ report[p] = ParseFailedToast("decodeError")


\* C26: the undo of an import is through (its handler has gone past the
\* balance write and shows the import as undone) only with the rows the import
\* inserted gone from the ledger.
C26_UndoneOnlyWithRowsGone ==
    \A b \in 1..Len(batches) :
        (batches[b].undone /\ batches[b].upc = "done")
        => \A r \in transactions : r.id \notin batches[b].insertedIds


\* C27: as long as every import run has ended with no row committed, the
\* categories of the owner are the ones the ledger started with.
C27_NoCommitNoNewCategory ==
    (\A p \in Procs : pc[p] = "idle" /\ \A i \in Runs(p) : hist[p][i].committed = 0)
    => \A c \in categories : c \in {FoodCat, SalaryCat, OtherCat}


\* What a row adds to the balance of its account: an income its amount, an
\* expense the opposite.
SignedEffect(r) == IF r.type = "income" THEN Abs(r.amount) ELSE 0 - Abs(r.amount)

\* C28: a click on the undo button of a deleted-transaction toast whose row is
\* already back in the ledger (an earlier click restored it) leaves the account
\* balances as they are, so that the balance is adjusted once however often the
\* button is clicked.
C28_UndoDeleteAdjustsOnce ==
    [][\A k \in 1..Len(delToasts) :
          ( /\ Len(delToasts') = Len(delToasts)
            /\ delToasts'[k].clicks = delToasts[k].clicks + 1
            /\ \E r \in transactions : r.id = delToasts[k].backupRow.id /\ ~r.is_deleted )
          => accounts' = accounts]_vars

\* C29: every step that takes an active row of the owner out of the ledger
\* (marks it deleted or removes it) moves the balance of the row's account by
\* the reverse of the row's signed effect.
C29_EveryDeleteRollsBack ==
    [][\A r \in transactions :
          ( /\ r.user_id = Owner /\ ~r.is_deleted
            /\ \A s \in transactions' : s.id = r.id => s.is_deleted )
          => BalanceOf(accounts', r.account_id)
                 = BalanceOf(accounts, r.account_id) - SignedEffect(r)]_vars

\* C30: the step that adds a row by hand leaves the account of the row with the
\* balance stored just before the step plus the row's signed effect, whatever
\* happened to the balance since the dialog loaded its accounts.
C30_AddAppliesToStoredBalance ==
    [][\A r \in transactions' :
          (\A s \in transactions : s.id # r.id)
          => BalanceOf(accounts', r.account_id)
                 = BalanceOf(accounts, r.account_id) + SignedEffect(r)]_vars

====
